---- MODULE Spec2Model ----
(***************************************************************************)
(* EVA: the constant-value abstraction (eva/ir/constant_value.{h,cpp}),    *)
(* the semantic term equality / hash pair and the common-subexpression     *)
(* eliminator (eva/common/common_subexpression_elimination.h), and         *)
(* hash_combine (eva/util/hash_combine.h).                                 *)
(*                                                                         *)
(* Two state machines share the module:                                    *)
(*   Spec     two ConstantValue objects are constructed and then           *)
(*            compared, hashed and expanded;                               *)
(*   SpecCSE  a term graph is built, and CommonSubexpressionEliminator     *)
(*            objects process its terms.                                   *)
(***************************************************************************)
EXTENDS Integers, Sequences, FiniteSets, TLC

VARIABLES lhs, rhs, out, terms, unique_terms, done, pass

cvVars == <<lhs, rhs, out>>
cseVars == <<terms, unique_terms, done, pass>>
vars == <<lhs, rhs, out, terms, unique_terms, done, pass>>

(***************************************************************************)
(* Bounds.                                                                 *)
(***************************************************************************)
\* largest ConstantValue size constructed in Spec
MaxSize == 4
\* doubles in Spec are 0..MaxVal (see HashDouble for what a number denotes)
MaxVal == 1
\* longest entry list handed to the SparseConstantValue constructor
MaxEntries == 3
\* largest k in expand(k * size)
MaxRepeat == 2
\* largest size of the ConstantValue of a Constant term
MaxConstSize == 2
\* largest index, rotation, divisor, scale and level of a term in SpecTerm
MaxAttr == 1
\* most operands of a term in SpecTerm, and the pointers they are drawn from
MaxOperands == 2
\* most terms of a graph in SpecCSE
MaxTerms == 3
\* most calls of one CommonSubexpressionEliminator in SpecCSE
MaxCalls == 3
\* most CommonSubexpressionEliminator objects run over a graph in SpecCSE
MaxPasses == 2

Values == 0..MaxVal

(***************************************************************************)
(* std::size_t arithmetic.  A size_t is 64 bits wide; it is kept as four   *)
(* 16-bit limbs, least significant first, so that the wrap-around of       *)
(* hash_combine's additions and shifts is the one of the code.             *)
(***************************************************************************)
Limb == 65536

ToSizeT(n) == <<n % Limb, n \div Limb, 0, 0>>

\* a + b modulo 2^64: limb by limb, the carry handed upwards
Add64(a, b) ==
  LET s1 == a[1] + b[1]
      s2 == a[2] + b[2] + (s1 \div Limb)
      s3 == a[3] + b[3] + (s2 \div Limb)
      s4 == a[4] + b[4] + (s3 \div Limb)
  IN <<s1 % Limb, s2 % Limb, s3 % Limb, s4 % Limb>>

\* a << 6 modulo 2^64
Shl6(a) ==
  <<(a[1] % 1024) * 64,
    (a[2] % 1024) * 64 + (a[1] \div 1024),
    (a[3] % 1024) * 64 + (a[2] \div 1024),
    (a[4] % 1024) * 64 + (a[3] \div 1024)>>

\* a >> 2
Shr2(a) ==
  <<(a[1] \div 4) + (a[2] % 4) * 16384,
    (a[2] \div 4) + (a[3] % 4) * 16384,
    (a[3] \div 4) + (a[4] % 4) * 16384,
    a[4] \div 4>>

RECURSIVE XorBits(_, _, _)
XorBits(x, y, n) ==
  IF n = 0 THEN 0
  ELSE ((x + y) % 2) + 2 * XorBits(x \div 2, y \div 2, n - 1)

\* x ^ y for two hexadecimal digits, tabulated
XorDigit == [x \in 0..15 |-> [y \in 0..15 |-> XorBits(x, y, 4)]]

\* x ^ y for two limbs, digit by digit
XorLimb(x, y) ==
  XorDigit[x % 16][y % 16]
  + 16 * XorDigit[(x \div 16) % 16][(y \div 16) % 16]
  + 256 * XorDigit[(x \div 256) % 16][(y \div 256) % 16]
  + 4096 * XorDigit[x \div 4096][y \div 4096]

\* a ^ b
Xor64(a, b) ==
  <<XorLimb(a[1], b[1]), XorLimb(a[2], b[2]), XorLimb(a[3], b[3]), XorLimb(a[4], b[4])>>

\* 0x9e3779b9
Golden == <<31161, 40503, 0, 0>>

\* hash ^= hasher(value) + 0x9e3779b9 + (hash << 6) + (hash >> 2);
\* hv is hasher(value).
hash_combine(hash, hv) ==
  Xor64(hash, Add64(Add64(Add64(hv, Golden), Shl6(hash)), Shr2(hash)))

(***************************************************************************)
(* The hashers hash_combine instantiates.  std::hash of an integer, an     *)
(* enum or a pointer is the value itself.  std::hash<double> is            *)
(* implementation-defined; the model takes the one of libc++, the bit      *)
(* pattern of the double (0.0 hashes to 0).  A number n of Values denotes  *)
(* the double whose bit pattern is n (0.0, and the subnormals n * 2^-1074),*)
(* so that comparing two doubles is comparing their numbers.               *)
(***************************************************************************)
HashSizeT(n) == ToSizeT(n)

HashDouble(v) == ToSizeT(v)

(***************************************************************************)
(* ConstantValue.  A DenseConstantValue is [kind, size, values] with       *)
(* values the stored buffer; a SparseConstantValue is [kind, size, values] *)
(* with values the stored (index, value) pairs.  Sequences are 1-based:    *)
(* values[i] of the code is values[i + 1] here.                            *)
(***************************************************************************)
None == [kind |-> "None"]
Threw == [kind |-> "Threw"]

\* ConstantValue::validateSlots: TRUE iff it returns without throwing
validateSlots(cv, slots) ==
  IF slots < cv.size THEN FALSE
  ELSE IF slots % cv.size # 0 THEN FALSE
  ELSE TRUE

\* DenseConstantValue::DenseConstantValue; Threw when it throws
DenseConstantValue(size, values) ==
  IF size % Len(values) # 0 THEN Threw
  ELSE [kind |-> "Dense", size |-> size, values |-> values]

\* std::sort of the entries by p1.first < p2.first (ties are followed by the
\* duplicate-index throw, so their order is never observed)
RECURSIVE SortByFirst(_)
SortByFirst(s) ==
  IF Len(s) <= 1 THEN s
  ELSE LET rest == SortByFirst(Tail(s))
           lo == SelectSeq(rest, LAMBDA p : p[1] < Head(s)[1])
           hi == SelectSeq(rest, LAMBDA p : ~(p[1] < Head(s)[1]))
       IN lo \o <<Head(s)>> \o hi

\* SparseConstantValue::SparseConstantValue; Threw when it throws
SparseConstantValue(size, values) ==
  LET kept == SelectSeq(values, LAMBDA entry : entry[2] # 0)
      sorted == SortByFirst(kept)
  IN IF Len(kept) > 0 /\ \E i \in 2..Len(sorted) : sorted[i][1] = sorted[i - 1][1]
     THEN Threw
     ELSE [kind |-> "Sparse", size |-> size, values |-> sorted]

RECURSIVE Repeat(_, _)
\* r copies of values, one insert at the end per iteration
Repeat(values, r) == IF r <= 0 THEN <<>> ELSE values \o Repeat(values, r - 1)

\* DenseConstantValue::expand; Threw when validateSlots throws
DenseExpand(d, slots) ==
  IF ~validateSlots(d, slots) THEN Threw
  ELSE IF Len(d.values) = slots THEN [kind |-> "Vector", vec |-> d.values]
  ELSE [kind |-> "Vector", vec |-> Repeat(d.values, slots \div Len(d.values))]

\* DenseConstantValue::expandTo
DenseExpandTo(d, slots) ==
  IF ~validateSlots(d, slots) THEN Threw
  ELSE [kind |-> "Vector", vec |-> Repeat(d.values, slots \div Len(d.values))]

\* the inner loop of SparseConstantValue::expand for one entry:
\* for (int i = 0; i < slots; i += values.size()) scratch.at(entry.first + i) = entry.second;
\* scratch is Threw once at() has thrown std::out_of_range
RECURSIVE SparseWrite(_, _, _, _, _)
SparseWrite(scratch, entry, i, step, slots) ==
  IF scratch.kind = "Threw" \/ ~(i < slots) THEN scratch
  ELSE IF entry[1] + i >= slots THEN Threw
  ELSE SparseWrite([scratch EXCEPT !.vec[entry[1] + i + 1] = entry[2]],
                   entry, i + step, step, slots)

\* the outer loop over the stored entries, from entry number k on
RECURSIVE SparseFill(_, _, _, _)
SparseFill(scratch, s, k, slots) ==
  IF scratch.kind = "Threw" \/ k > Len(s.values) THEN scratch
  ELSE SparseFill(SparseWrite(scratch, s.values[k], 0, Len(s.values), slots),
                  s, k + 1, slots)

\* SparseConstantValue::expand and expandTo (the two bodies are the same);
\* scratch.resize(slots) leaves slots zeros
SparseExpand(s, slots) ==
  IF ~validateSlots(s, slots) THEN Threw
  ELSE SparseFill([kind |-> "Vector", vec |-> [i \in 1..slots |-> 0]], s, 1, slots)

\* ConstantValue::expand, dispatched on the variant
expand(cv, slots) ==
  IF cv.kind = "Dense" THEN DenseExpand(cv, slots) ELSE SparseExpand(cv, slots)

\* ConstantValue::expandTo, dispatched on the variant
expandTo(cv, slots) ==
  IF cv.kind = "Dense" THEN DenseExpandTo(cv, slots) ELSE SparseExpand(cv, slots)

\* DenseConstantValue::operator==(const DenseConstantValue&)
DenseEqDense(d, other) == d.size = other.size /\ d.values = other.values

\* DenseConstantValue::operator==(const SparseConstantValue&)
DenseEqSparse(d, other) ==
  IF d.size # other.size THEN FALSE
  ELSE \A k \in 1..Len(other.values) :
         d.values[(other.values[k][1] % Len(d.values)) + 1] = other.values[k][2]

\* SparseConstantValue::operator==(const SparseConstantValue&)
SparseEqSparse(s, other) ==
  IF s.size # other.size \/ Len(s.values) # Len(other.values) THEN FALSE
  ELSE \A i \in 1..Len(s.values) : s.values[i] = other.values[i]

\* SparseConstantValue::operator==(const DenseConstantValue&)
SparseEqDense(s, other) == DenseEqSparse(other, s)

\* a == b through ConstantValue::operator==(const ConstantValue&): the
\* receiver hands itself to the other operand's overload for its own type
ConstantValueEq(a, b) ==
  IF a.kind = "Dense"
  THEN (IF b.kind = "Dense" THEN DenseEqDense(b, a) ELSE SparseEqDense(b, a))
  ELSE (IF b.kind = "Dense" THEN DenseEqSparse(b, a) ELSE SparseEqSparse(b, a))

\* values[i] in DenseConstantValue::hash, i counted from 0.  Past the end of
\* the stored buffer the read is out of bounds: it yields oob[i - size() + 1],
\* whatever lies behind the buffer.
DenseRead(d, oob, i) ==
  IF i < Len(d.values) THEN d.values[i + 1] ELSE oob[i - Len(d.values) + 1]

\* the loop of DenseConstantValue::hash from i on; st is <<hash, zero_count>>
RECURSIVE DenseHashLoop(_, _, _, _)
DenseHashLoop(d, oob, i, st) ==
  IF ~(i < d.size) THEN st
  ELSE LET v == DenseRead(d, oob, i)
       IN IF v = 0
          THEN DenseHashLoop(d, oob, i + 1, <<st[1], st[2] + 1>>)
          ELSE LET flushed == IF st[2] > 0
                              THEN hash_combine(st[1], HashSizeT(st[2]))
                              ELSE st[1]
               IN DenseHashLoop(d, oob, i + 1,
                                <<hash_combine(flushed, HashDouble(v)), 0>>)

\* DenseConstantValue::hash; oob are the values its out-of-bounds reads yield
DenseHash(d, oob) ==
  LET st == DenseHashLoop(d, oob, 0, <<ToSizeT(0), 0>>)
  IN IF st[2] > 0 THEN hash_combine(st[1], HashSizeT(st[2])) ELSE st[1]

\* the loop of SparseConstantValue::hash from entry k on; st is <<hash, prev>>
RECURSIVE SparseHashLoop(_, _, _)
SparseHashLoop(s, k, st) ==
  IF k > Len(s.values) THEN st
  ELSE LET pair == s.values[k]
           gapped == IF pair[1] - st[2] > 0
                     THEN hash_combine(st[1], HashSizeT(pair[1] - st[2]))
                     ELSE st[1]
       IN SparseHashLoop(s, k + 1, <<hash_combine(gapped, HashDouble(pair[2])), pair[1]>>)

\* SparseConstantValue::hash
SparseHash(s) ==
  LET st == SparseHashLoop(s, 1, <<ToSizeT(0), 0>>)
  IN IF s.size - st[2] > 0 THEN hash_combine(st[1], HashSizeT(s.size - st[2])) ELSE st[1]

\* the out-of-bounds reads DenseConstantValue::hash makes on cv: one per
\* position between the end of the stored buffer and size
OobReads(cv) ==
  IF cv.kind = "Dense" THEN [1..(cv.size - Len(cv.values)) -> Values] ELSE {<<>>}

\* ConstantValue::hash, dispatched on the variant
hash(cv, oob) == IF cv.kind = "Dense" THEN DenseHash(cv, oob) ELSE SparseHash(cv)

(***************************************************************************)
(* Terms.  A Term::Ptr is the position of the term in terms; two pointers  *)
(* are equal iff the positions are.  A term is                             *)
(*   [op, operands, index, constant, rotation, divisor, scale, level]      *)
(* with operands the sequence of operand pointers, constant the value of   *)
(* its ConstantValueAttribute (None without one) and rotation, divisor,    *)
(* scale and level the values of its Rotation, RescaleDivisor,             *)
(* EncodeAtScale and EncodeAtLevel attributes.                             *)
(***************************************************************************)
Ops == {"Undef", "Input", "Output", "Constant", "Negate", "Add", "Sub", "Mul",
        "RotateLeftConst", "RotateRightConst", "Relinearize", "ModSwitch",
        "Rescale", "Encode"}

\* the value of the Op enumerator, which std::hash<Op> returns
OpCode(op) ==
  CASE op = "Undef" -> 0
    [] op = "Input" -> 1
    [] op = "Output" -> 2
    [] op = "Constant" -> 3
    [] op = "Negate" -> 10
    [] op = "Add" -> 11
    [] op = "Sub" -> 12
    [] op = "Mul" -> 13
    [] op = "RotateLeftConst" -> 14
    [] op = "RotateRightConst" -> 15
    [] op = "Relinearize" -> 20
    [] op = "ModSwitch" -> 21
    [] op = "Rescale" -> 22
    [] op = "Encode" -> 23

Term(op, operands, index, constant, rotation, divisor, scale, level) ==
  [op |-> op, operands |-> operands, index |-> index, constant |-> constant,
   rotation |-> rotation, divisor |-> divisor, scale |-> scale, level |-> level]

\* std::hash<Term::Ptr>: the address the pointer holds
HashPtr(ptr) == ToSizeT(ptr)

\* SemanticTermEquality::operator() with Op::Undef handled as the
\* parameterless operations are
SemanticTermEqualityUndefEqual(l, r) ==
  IF l.op # r.op THEN FALSE
  ELSE IF Len(l.operands) # Len(r.operands) THEN FALSE
  ELSE IF \E i \in 1..Len(l.operands) : l.operands[i] # r.operands[i] THEN FALSE
  ELSE CASE l.op \in {"Input", "Output"} -> l.index = r.index
         [] l.op = "Constant" -> ConstantValueEq(l.constant, r.constant)
         [] l.op \in {"Undef", "Negate", "Add", "Sub", "Mul", "Relinearize", "ModSwitch"} -> TRUE
         [] l.op \in {"RotateLeftConst", "RotateRightConst"} -> l.rotation = r.rotation
         [] l.op = "Rescale" -> l.divisor = r.divisor
         [] l.op = "Encode" -> l.scale = r.scale /\ l.level = r.level

\* SemanticTermEquality::operator()
SemanticTermEquality(l, r) ==
  IF l.op # r.op THEN FALSE
  ELSE IF Len(l.operands) # Len(r.operands) THEN FALSE
  ELSE IF \E i \in 1..Len(l.operands) : l.operands[i] # r.operands[i] THEN FALSE
  ELSE CASE l.op = "Undef" -> FALSE
         [] l.op \in {"Input", "Output"} -> l.index = r.index
         [] l.op = "Constant" -> ConstantValueEq(l.constant, r.constant)
         [] l.op \in {"Negate", "Add", "Sub", "Mul", "Relinearize", "ModSwitch"} -> TRUE
         [] l.op \in {"RotateLeftConst", "RotateRightConst"} -> l.rotation = r.rotation
         [] l.op = "Rescale" -> l.divisor = r.divisor
         [] l.op = "Encode" -> l.scale = r.scale /\ l.level = r.level

\* the loop of SemanticTermHash over the operands, from operand i on
RECURSIVE HashOperands(_, _, _)
HashOperands(h, operands, i) ==
  IF i > Len(operands) THEN h
  ELSE HashOperands(hash_combine(h, HashPtr(operands[i])), operands, i + 1)

\* SemanticTermHash::operator(); oob are the values the out-of-bounds reads
\* of the constant's hash() yield
SemanticTermHash(term, oob) ==
  LET h == HashOperands(hash_combine(ToSizeT(0), HashSizeT(OpCode(term.op))),
                        term.operands, 1)
  IN CASE term.op \in {"Input", "Output"} -> hash_combine(h, HashSizeT(term.index))
       [] term.op = "Constant" -> hash_combine(h, hash(term.constant, oob))
       [] term.op \in {"Undef", "Negate", "Add", "Sub", "Mul", "Relinearize", "ModSwitch"} -> h
       [] term.op \in {"RotateLeftConst", "RotateRightConst"} ->
            hash_combine(h, HashSizeT(term.rotation))
       [] term.op = "Rescale" -> hash_combine(h, HashSizeT(term.divisor))
       [] term.op = "Encode" ->
            hash_combine(hash_combine(h, HashSizeT(term.scale)), HashSizeT(term.level))

\* the out-of-bounds reads SemanticTermHash makes on term
TermOobReads(term) ==
  IF term.op = "Constant" THEN OobReads(term.constant) ELSE {<<>>}

(***************************************************************************)
(* Spec: two ConstantValue objects are constructed, lhs first, and then    *)
(* compared, hashed and expanded.  out is what the last call was given and *)
(* what it returned.                                                       *)
(***************************************************************************)
\* the buffers a DenseConstantValue of at most MaxSize entries is built from
DenseInputs == UNION {[1..n -> Values] : n \in 1..MaxSize}

\* the entry lists handed to the SparseConstantValue constructor of a value
\* of the given size: at most MaxEntries pairs, each index below size
SparseInputs(size) ==
  UNION {[1..n -> (0..(size - 1)) \X Values] : n \in 0..MaxEntries}

Idle == [op |-> "none"]

InitCV == lhs = None /\ rhs = None /\ out = Idle

InitCSE == terms = <<>> /\ unique_terms = <<>> /\ done = <<>> /\ pass = 1

Init == InitCV /\ InitCSE

\* An exception that escapes a call ends the run, and so does the answer of
\* a query: the objects are immutable, and no later call depends on it.
Running ==
  \/ out.op = "none"
  \/ out.op \in {"DenseConstantValue", "SparseConstantValue"} /\ out.made.kind # "Threw"

\* the constructed object goes to lhs, then to rhs; a constructor that
\* throws constructs nothing
Construct(made) ==
  IF made = Threw THEN UNCHANGED <<lhs, rhs>>
  ELSE IF lhs = None THEN lhs' = made /\ UNCHANGED rhs
  ELSE rhs' = made /\ UNCHANGED lhs

\* some index occurs more than once in the entry list
HasDuplicateIndex(values) ==
  \E i, j \in 1..Len(values) : i # j /\ values[i][1] = values[j][1]

\* an entry of the list has the value 0
HasZeroValue(values) == \E i \in 1..Len(values) : values[i][2] = 0

NewDense ==
  /\ Running
  /\ rhs = None
  /\ \E size \in 1..MaxSize, values \in DenseInputs :
       LET made == DenseConstantValue(size, values)
       IN /\ Construct(made)
          /\ out' = [op |-> "DenseConstantValue", made |-> made]
  /\ UNCHANGED cseVars

\* out keeps of the entry list what the constructor's contract is about
NewSparse ==
  /\ Running
  /\ rhs = None
  /\ \E size \in 1..MaxSize :
       \E values \in SparseInputs(size) :
         LET made == SparseConstantValue(size, values)
         IN /\ Construct(made)
            /\ out' = [op |-> "SparseConstantValue", made |-> made,
                       duplicates |-> HasDuplicateIndex(values),
                       zeros |-> HasZeroValue(values)]
  /\ UNCHANGED cseVars

\* lhs == rhs and rhs == lhs
Equals ==
  /\ Running
  /\ lhs # None /\ rhs # None
  /\ out' = [op |-> "==", lr |-> ConstantValueEq(lhs, rhs),
             rl |-> ConstantValueEq(rhs, lhs)]
  /\ UNCHANGED <<lhs, rhs>>
  /\ UNCHANGED cseVars

\* lhs.hash() and rhs.hash()
Hash ==
  /\ Running
  /\ lhs # None /\ rhs # None
  /\ \E ol \in OobReads(lhs), or \in OobReads(rhs) :
       out' = [op |-> "hash", l |-> hash(lhs, ol), r |-> hash(rhs, or)]
  /\ UNCHANGED <<lhs, rhs>>
  /\ UNCHANGED cseVars

\* lhs.expand(scratch, slots) and lhs.expandTo(result, slots)
Expand ==
  /\ Running
  /\ lhs # None
  /\ \E slots \in 0..(MaxRepeat * lhs.size) :
       out' = [op |-> "expand", slots |-> slots,
               expand |-> expand(lhs, slots), expandTo |-> expandTo(lhs, slots)]
  /\ UNCHANGED <<lhs, rhs>>
  /\ UNCHANGED cseVars

Next == NewDense \/ NewSparse \/ Equals \/ Hash \/ Expand

Spec == Init /\ [][Next]_vars

(***************************************************************************)
(* SpecTerm: two terms are made and then compared and hashed.              *)
(***************************************************************************)
\* the ConstantValues of at most MaxConstSize entries the constructors return
ConstantPool ==
  UNION {{DenseConstantValue(n, v) : v \in UNION {[1..m -> Values] : m \in 1..n}}
         \cup {SparseConstantValue(n, v) : v \in SparseInputs(n)} : n \in 1..MaxConstSize}
  \ {Threw}

OperandLists == UNION {[1..n -> 1..MaxOperands] : n \in 0..MaxOperands}

\* the terms of one operation: the attributes the operation does not read
\* are left at 0
TermsOf(op) ==
  {Term(op, operands, index, constant, rotation, divisor, scale, level) :
     operands \in OperandLists,
     index \in IF op \in {"Input", "Output"} THEN 0..MaxAttr ELSE {0},
     constant \in IF op = "Constant" THEN ConstantPool ELSE {None},
     rotation \in IF op \in {"RotateLeftConst", "RotateRightConst"} THEN 0..MaxAttr ELSE {0},
     divisor \in IF op = "Rescale" THEN 0..MaxAttr ELSE {0},
     scale \in IF op = "Encode" THEN 0..MaxAttr ELSE {0},
     level \in IF op = "Encode" THEN 0..MaxAttr ELSE {0}}

MakeTerm ==
  /\ out = Idle
  /\ Len(terms) < 2
  /\ \E op \in Ops : \E term \in TermsOf(op) : terms' = Append(terms, term)
  /\ UNCHANGED <<unique_terms, done, pass>>
  /\ UNCHANGED cvVars

\* SemanticTermEquality()(terms[1], terms[2]) and the SemanticTermHash of both
CompareTerms ==
  /\ out = Idle
  /\ Len(terms) = 2
  /\ \E ol \in TermOobReads(terms[1]), or \in TermOobReads(terms[2]) :
       out' = [op |-> "SemanticTermEquality",
               eq |-> SemanticTermEquality(terms[1], terms[2]),
               l |-> SemanticTermHash(terms[1], ol),
               r |-> SemanticTermHash(terms[2], or)]
  /\ UNCHANGED <<lhs, rhs>>
  /\ UNCHANGED cseVars

NextTerm == MakeTerm \/ CompareTerms

SpecTerm == Init /\ [][NextTerm]_vars

(***************************************************************************)
(* SpecCSE: a term graph is built, then CommonSubexpressionEliminator      *)
(* objects process its terms.  unique_terms is the unordered_set: its      *)
(* elements in insertion order, each with the hash code the set cached     *)
(* when it inserted the element.  done is the calls of the current         *)
(* eliminator in order: the term, the representative its users were        *)
(* redirected to (0 when the term was inserted), whether the redirection   *)
(* changed an operand, and whether every operand of the term had been      *)
(* processed before.                                                       *)
(***************************************************************************)
\* the terms a graph of n terms is extended by; a term's index is the
\* number the program allocates to it, its position
GraphTerms(n) ==
  {Term("Undef", <<>>, n + 1, None, 0, 0, 0, 0)}
  \cup {Term("Undef", <<t>>, n + 1, None, 0, 0, 0, 0) : t \in 1..n}
  \cup {Term("Constant", <<>>, n + 1, c, 0, 0, 0, 0) : c \in ConstantPool}
  \cup {Term("Negate", <<t>>, n + 1, None, 0, 0, 0, 0) : t \in 1..n}
  \cup {Term("Add", <<t, u>>, n + 1, None, 0, 0, 0, 0) : t \in 1..n, u \in 1..n}

NewTerm ==
  /\ Len(terms) < MaxTerms
  /\ done = <<>> /\ pass = 1
  /\ \E term \in GraphTerms(Len(terms)) : terms' = Append(terms, term)
  /\ UNCHANGED <<unique_terms, done, pass>>
  /\ UNCHANGED cvVars

\* the terms that have term among their operands
Users(graph, term) ==
  {u \in 1..Len(graph) : \E i \in 1..Len(graph[u].operands) : graph[u].operands[i] = term}

\* Term::replaceAllUsesWith: every operand that is term becomes rep
replaceAllUsesWith(graph, term, rep) ==
  [u \in 1..Len(graph) |->
     [graph[u] EXCEPT !.operands =
        [i \in 1..Len(graph[u].operands) |->
           IF graph[u].operands[i] = term THEN rep ELSE graph[u].operands[i]]]]

Processed(term) == \E k \in 1..Len(done) : done[k].term = term

Ready(term) ==
  \A i \in 1..Len(terms[term].operands) : Processed(terms[term].operands[i])

\* unordered_set::insert(term): the elements the lookup can return.  The set
\* caches the hash code of each element when it inserts it and calls
\* SemanticTermEquality only on an element whose cached code is code.
Equivalent(term, code) ==
  {k \in 1..Len(unique_terms) :
     /\ unique_terms[k].code = code
     /\ SemanticTermEquality(terms[term], terms[unique_terms[k].term])}

\* CommonSubexpressionEliminator::operator()(term).  A later eliminator is
\* run as the forward pass the code asks for; the first one is also called
\* in the orders that break it.
Process(term) ==
  /\ Len(done) < MaxCalls
  /\ pass > 1 => Ready(term) /\ ~Processed(term)
  /\ \E oob \in TermOobReads(terms[term]) :
       LET code == SemanticTermHash(terms[term], oob)
           found == Equivalent(term, code)
       IN IF found = {}
          THEN /\ unique_terms' = Append(unique_terms, [term |-> term, code |-> code])
               /\ done' = Append(done, [term |-> term, rep |-> 0, changed |-> FALSE,
                                        ready |-> Ready(term)])
               /\ UNCHANGED terms
          ELSE \E k \in found :
                 LET rep == unique_terms[k].term
                     graph == replaceAllUsesWith(terms, term, rep)
                 IN /\ terms' = graph
                    /\ done' = Append(done, [term |-> term, rep |-> rep,
                                             changed |-> graph # terms,
                                             ready |-> Ready(term)])
                    /\ UNCHANGED unique_terms
  /\ UNCHANGED pass
  /\ UNCHANGED cvVars

\* done is a forward pass over the whole graph: every term once, operands
\* before users
ForwardPass ==
  /\ Len(done) = Len(terms)
  /\ \A j, k \in 1..Len(done) : j # k => done[j].term # done[k].term
  /\ \A k \in 1..Len(done) : done[k].ready

\* a new CommonSubexpressionEliminator, constructed after a forward pass
NewPass ==
  /\ pass < MaxPasses
  /\ terms # <<>>
  /\ ForwardPass
  /\ unique_terms' = <<>> /\ done' = <<>> /\ pass' = pass + 1
  /\ UNCHANGED terms
  /\ UNCHANGED cvVars

ProcessTerm == \E term \in 1..Len(terms) : Process(term)

NextCSE == NewTerm \/ ProcessTerm \/ NewPass

SpecCSE == Init /\ [][NextCSE]_vars

(***************************************************************************)
(* The logical pattern of a ConstantValue: its size entries, the dense     *)
(* buffer tiled to size, the sparse entries at their indices and zeros     *)
(* elsewhere.                                                              *)
(***************************************************************************)
Logical(cv) ==
  IF cv.kind = "Dense"
  THEN [i \in 1..cv.size |-> cv.values[((i - 1) % Len(cv.values)) + 1]]
  ELSE [i \in 1..cv.size |->
          IF \E k \in 1..Len(cv.values) : cv.values[k][1] = i - 1
          THEN (CHOOSE e \in {cv.values[k] : k \in 1..Len(cv.values)} : e[1] = i - 1)[2]
          ELSE 0]

SameLogical(a, b) == a.size = b.size /\ Logical(a) = Logical(b)

\* C1: a DenseConstantValue and a SparseConstantValue of the same size that
\* denote the same logical sequence have equal hash() values.
C1_HashRepresentationInvariant ==
  (out.op = "hash" /\ lhs.kind # rhs.kind /\ SameLogical(lhs, rhs)) => out.l = out.r

\* C2: a == b is true only if a and b have the same size and the same
\* logical sequence, and a == b answers as b == a does.
C2_EqualsComparesLogicalPattern ==
  out.op = "==" => /\ (out.lr => SameLogical(lhs, rhs))
                   /\ out.lr = out.rl

\* C3: two ConstantValues of the same size that denote the same logical
\* sequence compare equal, whatever their variants and stored buffers.
C3_SameLogicalComparesEqual ==
  (out.op = "==" /\ SameLogical(lhs, rhs)) => out.lr

\* C6: for slots = k * size with k >= 1, expand and expandTo return the
\* logical pattern concatenated k times.
C6_ExpandLaw ==
  (out.op = "expand" /\ out.slots >= lhs.size /\ out.slots % lhs.size = 0) =>
     LET tiled == [kind |-> "Vector",
                   vec |-> Repeat(Logical(lhs), out.slots \div lhs.size)]
     IN out.expand = tiled /\ out.expandTo = tiled

\* C9: a SparseConstantValue constructor given an entry list in which an
\* index occurs more than once throws; one that returns has stored entries
\* with strictly increasing indices and nonzero values.
C9_DuplicateIndicesRejected ==
  out.op = "SparseConstantValue" =>
     /\ out.duplicates => out.made.kind = "Threw"
     /\ out.made.kind # "Threw" =>
          /\ \A k \in 1..Len(out.made.values) : out.made.values[k][2] # 0
          /\ \A k \in 2..Len(out.made.values) :
               out.made.values[k - 1][1] < out.made.values[k][1]

\* C4: two terms that SemanticTermEquality accepts have the same
\* SemanticTermHash.
C4_TermHashSound ==
  (out.op = "SemanticTermEquality" /\ out.eq) => out.l = out.r

\* the terms some term has among its operands
Referenced == {t \in 1..Len(terms) : Users(terms, t) # {}}

\* C5: after a forward pass of one eliminator over the whole graph, no two
\* distinct terms that are referenced as operands are equal under
\* SemanticTermEquality, and a term processed after an equal term has no
\* users left.
C5_OneRepresentativePerClass ==
  (terms # <<>> /\ ForwardPass) =>
     /\ \A a, b \in Referenced :
          a # b => ~SemanticTermEquality(terms[a], terms[b])
     /\ \A j, k \in 1..Len(done) :
          (j < k /\ SemanticTermEquality(terms[done[k].term], terms[done[j].term]))
             => Users(terms, done[k].term) = {}

\* C7: SemanticTermEquality is false for every pair of Undef terms, a term
\* and itself included, and no call of an eliminator redirects the users of
\* an Undef term.
C7_UndefNeverEliminated ==
  /\ \A a, b \in 1..Len(terms) :
       (terms[a].op = "Undef" /\ terms[b].op = "Undef")
          => ~SemanticTermEquality(terms[a], terms[b])
  /\ \A k \in 1..Len(done) : terms[done[k].term].op = "Undef" => done[k].rep = 0

\* an Undef term that has a user was processed after an Undef term with the
\* same operands, and was inserted
C7_Witness ==
  \E j, k \in 1..Len(done) :
     /\ j < k
     /\ terms[done[j].term].op = "Undef" /\ terms[done[k].term].op = "Undef"
     /\ terms[done[j].term].operands = terms[done[k].term].operands
     /\ terms[done[k].term].operands # <<>>
     /\ Users(terms, done[k].term) # {}
     /\ done[k].rep = 0

\* C8: a forward pass of a second eliminator over a graph a first forward
\* pass has deduplicated changes no operand, and processing a term again
\* that the eliminator has eliminated inserts nothing into its table.
C8_Idempotent ==
  /\ pass > 1 => \A k \in 1..Len(done) : ~done[k].changed
  /\ \A j, k \in 1..Len(done) :
       (j < k /\ done[j].term = done[k].term /\ done[j].rep \notin {0, done[j].term})
          => done[k].rep # 0

\* the payloads SemanticTermEquality compares denote the same value
SamePayload(l, r) ==
  /\ l.index = r.index \/ l.op \notin {"Input", "Output"}
  /\ l.op = "Constant" => SameLogical(l.constant, r.constant)
  /\ l.rotation = r.rotation /\ l.divisor = r.divisor
  /\ l.scale = r.scale /\ l.level = r.level

\* C10: in any order of calls, a term whose users are redirected and the
\* representative they are redirected to have the same operation, the same
\* operands and payloads that denote the same value.
C10_RedirectsMergeEqualValues ==
  \A k \in 1..Len(done) :
     done[k].rep # 0 =>
        LET l == terms[done[k].term]
            r == terms[done[k].rep]
        IN l.op = r.op /\ l.operands = r.operands /\ SamePayload(l, r)

====
